---- MODULE Spec2Model ----
(***************************************************************************)
(* Model of src/app.py: the batch loop that sends every uploaded newspaper *)
(* image to the recognition oracle, parses the JSON answer, shows the news *)
(* sections and the image sections, and the helper crop_image_section that *)
(* turns a 0-1000 relative box into a pixel rectangle.                     *)
(*                                                                         *)
(* Pixel coordinates are kept exactly, in thousandths of a pixel: the      *)
(* code's (v / 1000) * dim is the integer v * dim here, and a dimension    *)
(* dim is dim * BoxScale.                                                  *)
(***************************************************************************)
EXTENDS Integers, Sequences, FiniteSets

\* ------------------------------------------------------------------ bounds
MaxDim == 3        \* small image sides 1 .. MaxDim, next to the 2000 x 3000 page
MaxArity == 5      \* box lists of 0 .. MaxArity elements
MaxDocs == 3       \* uploaded files per batch
MaxSections == 2   \* section records per oracle answer

\* The divisor of the relative box scale, (xmin / 1000) * width.
BoxScale == 1000

\* --------------------------------------------------------------- variables
VARIABLES
    \* crop_image_section called on its own
    pil_size,      \* pil_image.size: <<width, height>>
    box_2d,        \* the box argument
    crop,          \* the value returned
    called,        \* whether the call has returned
    \* the batch loop
    total,         \* len(uploaded_files)
    idx,           \* the loop index of enumerate(uploaded_files)
    pc,            \* the statement the script is at
    image,         \* size of the opened image
    result_text,   \* the text process_with_gemini returned
    sections,      \* data.get("sections", [])
    date_shown,    \* the date of st.info, <<>> when none was shown
    shown,         \* the section cards and gallery cells drawn, in order
    status,        \* per handled document: what the page reports
    received,      \* per handled document: what the oracle's answer was like
    oracleCalls,   \* per document: calls of process_with_gemini
    progress,      \* the values given to progress_bar.progress, <<num, den>>
    downloads      \* the idx of every download button drawn

cropVars == <<pil_size, box_2d, crop, called>>
batchVars == <<total, idx, pc, image, result_text, sections, date_shown, shown,
               status, received, oracleCalls, progress, downloads>>
vars == <<cropVars, batchVars>>

\* ------------------------------------------------------ crop_image_section
\* A box value as a section's .get("box_2d") yields it: None, or a list.
NoBox == [tag |-> "none", items |-> <<>>]
ListBox(items) == [tag |-> "list", items |-> items]

\* None, and a crop of the rectangle <<left, top, right, bottom>>.
None == [present |-> FALSE, rect |-> <<0, 0, 0, 0>>]
Cropped(left, top, right, bottom) ==
    [present |-> TRUE, rect |-> <<left, top, right, bottom>>]

Max(a, b) == IF a >= b THEN a ELSE b
Min(a, b) == IF a <= b THEN a ELSE b

\* `not box_2d`: None and the empty list are falsy.
Falsy(box) == box.tag = "none" \/ Len(box.items) = 0

\* Mutant: percent instead of per-mille.
ScalePercent(v, dim) == v * dim * 10
\* (v / 1000) * dim, in thousandths of a pixel.
ScaleCoord(v, dim) == v * dim

\* Mutant: the box read as (xmin, ymin, xmax, ymax).
UnpackXY(items) ==
    [ymin |-> items[2], xmin |-> items[1], ymax |-> items[4], xmax |-> items[3]]
\* ymin, xmin, ymax, xmax = box_2d
Unpack(items) ==
    [ymin |-> items[1], xmin |-> items[2], ymax |-> items[3], xmax |-> items[4]]

\* Mutant: an empty rectangle passes.
DegenerateStrict(left, top, right, bottom) == right < left \/ bottom < top
\* right <= left or bottom <= top
Degenerate(left, top, right, bottom) == right <= left \/ bottom <= top

crop_image_section(size, box) ==
    IF Falsy(box) THEN None
    ELSE IF Len(box.items) # 4 THEN None      \* the unpacking raises, caught
    ELSE LET width == size[1]
             height == size[2]
             b == Unpack(box.items)
             left == Max(0, ScaleCoord(b.xmin, width))
             top == Max(0, ScaleCoord(b.ymin, height))
             right == Min(width * BoxScale, ScaleCoord(b.xmax, width))
             bottom == Min(height * BoxScale, ScaleCoord(b.ymax, height))
         IN  IF Degenerate(left, top, right, bottom) THEN None
             ELSE Cropped(left, top, right, bottom)

\* ---------------------------------------------------------- the crop inputs
PageSize == <<2000, 3000>>
Widths == (1 .. MaxDim) \cup {PageSize[1]}
Heights == (1 .. MaxDim) \cup {PageSize[2]}
Coords == {-100, 0, 100, 500, 900, 920, 980, 1000, 1200}
ShortCoords == {0, 500}

RECURSIVE Tuples(_, _)
Tuples(S, n) ==
    IF n = 0 THEN {<<>>}
    ELSE {Append(t, x) : t \in Tuples(S, n - 1), x \in S}

Boxes ==
    {NoBox}
    \cup {ListBox(t) : t \in Tuples(Coords, 4)}
    \cup UNION {{ListBox(t) : t \in Tuples(ShortCoords, n)} :
                n \in (0 .. MaxArity) \ {4}}

\* ------------------------------------------------------------ the batch loop
NoImage == <<0, 0>>
\* The date shown when the answer carries none (the code's literal is the
\* Chinese word for "unknown").
Unknown == "unknown"
SomeDate == "2024-01-01"

\* One record of the "sections" list: a JSON object with an optional "type"
\* and an optional "box_2d", or a value that is no object at all.
SectionTypes == {"news", "image", "text", "ad", "missing"}
PageBox == ListBox(<<100, 50, 900, 950>>)
NotADict == [isDict |-> FALSE, type |-> "missing", box |-> NoBox]
SectionRecords ==
    [isDict : {TRUE}, type : SectionTypes, box : {NoBox, PageBox}]
    \cup {NotADict}
SectionLists == UNION {Tuples(SectionRecords, n) : n \in 0 .. MaxSections}

\* The text process_with_gemini returns.  syntax: "json" for well-formed
\* JSON, "garbage" for any other answer of the oracle, "error" for the
\* "Error: ..." string made from an exception.  top: the JSON value's kind.
Blank(syntax, top) ==
    [syntax |-> syntax, top |-> top, hasDate |-> FALSE, date |-> "",
     sectionsKind |-> "missing", sections |-> <<>>]
NoText == Blank("none", "none")
ErrorText == Blank("error", "none")
GarbageText == Blank("garbage", "none")
ArrayText == Blank("json", "array")
ObjectTexts ==
    {[syntax |-> "json", top |-> "object", hasDate |-> d[1], date |-> d[2],
      sectionsKind |-> k[1], sections |-> k[2]] :
        d \in {<<FALSE, "">>, <<TRUE, SomeDate>>},
        k \in {<<"missing", <<>>>>, <<"null", <<>>>>}
              \cup {<<"list", l>> : l \in SectionLists}}
OracleTexts == {GarbageText, ArrayText} \cup ObjectTexts

\* Mutant: text that is no JSON is repaired to an empty object.
json_loads_lenient(text) ==
    IF text.syntax = "json"
    THEN [ok |-> TRUE, top |-> text.top, hasDate |-> text.hasDate,
          date |-> text.date, sectionsKind |-> text.sectionsKind,
          sections |-> text.sections]
    ELSE [ok |-> TRUE, top |-> "object", hasDate |-> FALSE, date |-> "",
          sectionsKind |-> "missing", sections |-> <<>>]
\* json.loads(result_text): the value, or (ok = FALSE) a JSONDecodeError.
json_loads(text) ==
    IF text.syntax = "json"
    THEN [ok |-> TRUE, top |-> text.top, hasDate |-> text.hasDate,
          date |-> text.date, sectionsKind |-> text.sectionsKind,
          sections |-> text.sections]
    ELSE [ok |-> FALSE, top |-> "none", hasDate |-> FALSE, date |-> "",
          sectionsKind |-> "missing", sections |-> <<>>]

\* Mutant: data["date"], a KeyError when the key is missing.
get_date_strict(data) == [raises |-> ~data.hasDate, value |-> data.date]
\* data.get('date', <unknown>)
get_date(data) ==
    [raises |-> FALSE, value |-> IF data.hasDate THEN data.date ELSE Unknown]

\* data.get("sections", [])
get_sections(data) ==
    IF data.sectionsKind = "missing" THEN <<>> ELSE data.sections

\* Mutant: "text" records are news too.
IsNewsOrText(s) == s.type \in {"news", "text"}
\* s.get("type") == "news"
IsNews(s) == s.type = "news"
\* s.get("type") == "image"
IsImage(s) == s.type = "image"

\* The positions, in list order, of the records a filter keeps.
NewsPositions(secs) ==
    SelectSeq([p \in 1 .. Len(secs) |-> p], LAMBDA p : IsNews(secs[p]))
ImagePositions(secs) ==
    SelectSeq([p \in 1 .. Len(secs) |-> p], LAMBDA p : IsImage(secs[p]))

\* One card or gallery cell: the record at position pos, with its crop.
Drawn(kind, img, secs, positions) ==
    [k \in 1 .. Len(positions) |->
        [kind |-> kind, pos |-> positions[k],
         cropped |-> crop_image_section(img, secs[positions[k]].box).present]]

\* Mutant: the gallery first.
GalleryThenNews(news, gallery) == gallery \o news
\* The news loop, then the image loop.
NewsThenGallery(news, gallery) == news \o gallery

Outcome(st, date, secs, cards, button) ==
    [status |-> st, date_shown |-> date, sections |-> secs, shown |-> cards,
     download |-> button]

\* The try block of one document, with its two except clauses.
TryBlock(img, text) ==
    LET data == json_loads(text)
        date == get_date(data)
        secs == get_sections(data)
    IN  IF ~data.ok
        THEN Outcome("failed_parse", <<>>, <<>>, <<>>, FALSE)
        ELSE IF data.top # "object" \/ date.raises
        THEN Outcome("failed_error", <<>>, <<>>, <<>>, FALSE)
        ELSE IF data.sectionsKind = "null"
                \/ \E p \in 1 .. Len(secs) : ~secs[p].isDict
        THEN Outcome("failed_error", <<date.value>>, secs, <<>>, FALSE)
        ELSE Outcome("succeeded", <<date.value>>, secs,
                     NewsThenGallery(
                         Drawn("news", img, secs, NewsPositions(secs)),
                         Drawn("image", img, secs, ImagePositions(secs))),
                     TRUE)

\* What an answer is like, whatever is then done with it: no JSON; a JSON
\* object whose "sections", when present, is a list of objects; other JSON.
Classify(text) ==
    IF text.syntax # "json" THEN "notjson"
    ELSE IF /\ text.top = "object"
            /\ text.sectionsKind # "null"
            /\ \A p \in 1 .. Len(text.sections) : text.sections[p].isDict
         THEN "clean"
         ELSE "bad"

InitBatchIdle ==
    /\ total = 0
    /\ idx = 0
    /\ pc = "idle"
    /\ image = NoImage
    /\ result_text = NoText
    /\ sections = <<>>
    /\ date_shown = <<>>
    /\ shown = <<>>
    /\ status = <<>>
    /\ received = <<>>
    /\ oracleCalls = <<>>
    /\ progress = <<>>
    /\ downloads = {}

InitCropIdle ==
    /\ pil_size = <<1, 1>>
    /\ box_2d = NoBox
    /\ crop = None
    /\ called = FALSE

\* The button was pressed on a non-empty upload with an API key.
Init ==
    /\ InitCropIdle
    /\ total \in 1 .. MaxDocs
    /\ idx = 0
    /\ pc = "open"
    /\ image = NoImage
    /\ result_text = NoText
    /\ sections = <<>>
    /\ date_shown = <<>>
    /\ shown = <<>>
    /\ status = <<>>
    /\ received = <<>>
    /\ oracleCalls = [k \in 1 .. total |-> 0]
    /\ progress = <<>>
    /\ downloads = {}

\* image = Image.open(uploaded_file), outside the try block: a file that is
\* no readable image raises, and the script run ends there.
OpenImage ==
    /\ pc = "open"
    /\ \E readable \in BOOLEAN :
          IF readable
          THEN image' = PageSize /\ pc' = "oracle"
          ELSE image' = image /\ pc' = "aborted"
    /\ UNCHANGED <<cropVars, total, idx, result_text, sections, date_shown,
                   shown, status, received, oracleCalls, progress, downloads>>

\* result_text = process_with_gemini(api_key, image): the oracle's text, or
\* the "Error: ..." string when generate_content raised.
CallOracle ==
    /\ pc = "oracle"
    /\ \E text \in OracleTexts \cup {ErrorText} :
          /\ result_text' = text
          /\ received' = Append(received, Classify(text))
    /\ oracleCalls' = [oracleCalls EXCEPT ![idx + 1] = @ + 1]
    /\ pc' = "try"
    /\ UNCHANGED <<cropVars, total, idx, image, sections, date_shown, shown,
                   status, progress, downloads>>

\* The try block and its except clauses.
Render ==
    /\ pc = "try"
    /\ LET out == TryBlock(image, result_text)
       IN  /\ status' = Append(status, out.status)
           /\ date_shown' = out.date_shown
           /\ sections' = out.sections
           /\ shown' = out.shown
           /\ downloads' = IF out.download THEN downloads \cup {idx}
                           ELSE downloads
    /\ pc' = "progress"
    /\ UNCHANGED <<cropVars, total, idx, image, result_text, received,
                   oracleCalls, progress>>

\* progress_bar.progress((idx + 1) / len(uploaded_files)), and the next turn
\* of the loop.  The names of the finished turn are dead from here on and are
\* cleared.
ReportProgress ==
    /\ pc = "progress"
    /\ progress' = Append(progress, <<idx + 1, total>>)
    /\ idx' = idx + 1
    /\ pc' = IF idx + 1 < total THEN "open" ELSE "success"
    /\ image' = NoImage
    /\ result_text' = NoText
    /\ sections' = <<>>
    /\ date_shown' = <<>>
    /\ shown' = <<>>
    /\ UNCHANGED <<cropVars, total, status, received, oracleCalls, downloads>>

\* st.success after the loop.
Finish ==
    /\ pc = "success"
    /\ pc' = "done"
    /\ UNCHANGED <<cropVars, total, idx, image, result_text, sections,
                   date_shown, shown, status, received, oracleCalls, progress,
                   downloads>>

Next ==
    \/ OpenImage
    \/ CallOracle
    \/ Render
    \/ ReportProgress
    \/ Finish

Spec == Init /\ [][Next]_vars

\* ------------------------------------------- crop_image_section on its own
InitCrop ==
    /\ pil_size \in Widths \X Heights
    /\ box_2d \in Boxes
    /\ crop = None
    /\ called = FALSE
    /\ InitBatchIdle

CallCrop ==
    /\ ~called
    /\ crop' = crop_image_section(pil_size, box_2d)
    /\ called' = TRUE
    /\ UNCHANGED <<pil_size, box_2d, batchVars>>

NextCrop == CallCrop

SpecCrop == InitCrop /\ [][NextCrop]_vars

\* ----------------------------------------------------- claims: the batch loop
\* The script run has ended: after st.success, or on an uncaught exception.
Ended == pc \in {"done", "aborted"}
\* The document of this turn has been through the try block.
Rendered == pc = "progress"
Succeeded == Rendered /\ status[idx + 1] = "succeeded"

\* C1: whatever fails for a document, at whatever stage, the failure is
\* recorded for that document and the loop goes on: when the run has ended,
\* every one of the documents has an outcome recorded.
C1_EveryDocumentHandled == Ended => Len(status) = total

\* C2: in a batch of three documents whose second answer alone is no JSON
\* (the first and third being well-formed), the outcomes are succeeded,
\* failed on parsing, succeeded, the download button is drawn for the first
\* and third document, and never for the second.
C2_BatchResilience ==
    /\ (pc = "done" /\ total = 3 /\ received = <<"clean", "notjson", "clean">>)
        => /\ status = <<"succeeded", "failed_parse", "succeeded">>
           /\ downloads = {0, 2}
    /\ (Len(received) >= 2 /\ received[2] = "notjson") => 1 \notin downloads

\* The batch of three with only the second answer malformed has completed.
C2_Witness ==
    /\ pc = "done"
    /\ total = 3
    /\ received = <<"clean", "notjson", "clean">>
    /\ Len(status) = 3

\* C3: when the run has ended, process_with_gemini has been called exactly
\* once for every document.
C3_EveryDocumentAttemptedOnce ==
    Ended => oracleCalls = [k \in 1 .. total |-> 1]

\* C4: when the run has ended, progress has been reported once after each
\* document, as 1/total, 2/total, ..., total/total.
C4_ProgressAfterEachDocument ==
    Ended => progress = [k \in 1 .. total |-> <<k, total>>]

\* C7: an answer that is no JSON fails the document; a JSON object without
\* "date" or without "sections" does not: the date shown is the unknown
\* sentinel, the section list is empty, and the document succeeds.
C7_AsymmetricStrictness ==
    Rendered =>
        /\ result_text.syntax # "json" => status[idx + 1] = "failed_parse"
        /\ (/\ Classify(result_text) = "clean"
            /\ (~result_text.hasDate \/ result_text.sectionsKind = "missing"))
            => /\ status[idx + 1] = "succeeded"
               /\ idx \in downloads
               /\ ~result_text.hasDate => date_shown = <<Unknown>>
               /\ result_text.sectionsKind = "missing" =>
                      sections = <<>> /\ shown = <<>>

\* The empty object {} has been rendered, and the document succeeded.
C7_Witness ==
    /\ Succeeded
    /\ result_text.syntax = "json"
    /\ ~result_text.hasDate
    /\ result_text.sectionsKind = "missing"
    /\ date_shown = <<Unknown>>

\* How many cards or cells were drawn, as kind, for the record at position p.
TimesDrawn(p, kind) ==
    Cardinality({k \in 1 .. Len(shown) :
                    shown[k].pos = p /\ shown[k].kind = kind})

IsQuad(box) == box.tag = "list" /\ Len(box.items) = 4
InScale(v) == 0 <= v /\ v <= BoxScale

\* A box of four values in [0,1000] with ymin < ymax and xmin < xmax.
ValidBox(box) ==
    /\ IsQuad(box)
    /\ \A k \in 1 .. 4 : InScale(box.items[k])
    /\ box.items[1] < box.items[3]
    /\ box.items[2] < box.items[4]

\* C5: for every image size with positive sides and every box inside
\* [0,1000]^4 with ymin < ymax and xmin < xmax, crop_image_section returns a
\* crop, and its rectangle has 0 <= left < right <= width and
\* 0 <= top < bottom <= height.
C5_ValidBoxCropsInside ==
    (called /\ ValidBox(box_2d)) =>
        /\ crop.present
        /\ 0 <= crop.rect[1] /\ crop.rect[1] < crop.rect[3]
        /\ crop.rect[3] <= pil_size[1] * BoxScale
        /\ 0 <= crop.rect[2] /\ crop.rect[2] < crop.rect[4]
        /\ crop.rect[4] <= pil_size[2] * BoxScale

\* A valid box that touches neither edge, on the smallest image, cropped.
C5_Witness ==
    /\ called
    /\ pil_size = <<1, 1>>
    /\ box_2d = ListBox(<<100, 500, 900, 920>>)
    /\ crop.present

\* Scaled and clamped to a side, the interval lo..hi of the box is empty:
\* the high end is not above the low end, or not above 0, or the low end is
\* not below the full scale.
EmptyAfterClamp(lo, hi) == hi <= lo \/ hi <= 0 \/ lo >= BoxScale

\* C6: crop_image_section returns None when the box is missing, has not four
\* elements, or is empty after scaling and clamping on either axis, and a
\* crop it does return has positive width and height.
C6_DegenerateIsAbsent ==
    called =>
        /\ (box_2d.tag = "none" \/ Len(box_2d.items) # 4) => ~crop.present
        /\ (IsQuad(box_2d)
              /\ (\/ EmptyAfterClamp(box_2d.items[2], box_2d.items[4])
                  \/ EmptyAfterClamp(box_2d.items[1], box_2d.items[3])))
            => ~crop.present
        /\ crop.present =>
              crop.rect[1] < crop.rect[3] /\ crop.rect[2] < crop.rect[4]

\* The spec's example box [500,500,500,900], of zero height, gives None.
C6_Witness ==
    /\ called
    /\ box_2d = ListBox(<<500, 500, 500, 900>>)
    /\ crop = None

ExampleCall ==
    called /\ pil_size = PageSize /\ box_2d = ListBox(<<920, 100, 980, 900>>)

\* C10 as stated: on the 2000 x 3000 page the box [920,100,980,900] selects
\* x from 20 to 1800 and y from 2760 to 2940.
C10_AsStated ==
    ExampleCall =>
        crop = Cropped(20 * BoxScale, 2760 * BoxScale,
                       1800 * BoxScale, 2940 * BoxScale)

\* C10 amended: on the 2000 x 3000 page the box [920,100,980,900] selects
\* x from 200 to 1800 and y from 2760 to 2940.
C10_ExampleRegion ==
    ExampleCall =>
        crop = Cropped(200 * BoxScale, 2760 * BoxScale,
                       1800 * BoxScale, 2940 * BoxScale)

\* The example call has returned a crop.
C10_Witness == ExampleCall /\ crop.present

====
